---- MODULE Spec2Model ----
(***************************************************************************)
(* NexusCloud manager: the cross-server transfer endpoint of server.js     *)
(* (POST /api/fs/transfer) and the copy/move flow of FileExplorer.tsx with *)
(* the transfer records of TransferContext.tsx.                            *)
(***************************************************************************)
EXTENDS Integers, Sequences, FiniteSets, TLC

\* ------------------------------------------------------------------ bounds
MaxTransfers == 2      \* transfer requests the server receives in one run
MaxTime == 2           \* millisecond values Date.now() takes in one run
MaxTicks == 2          \* firings of the progress timers of one transfer

\* --------------------------------------------------------------- constants
None == "none"

\* ConnectionType of types.ts, as the client sends it in `type`
SFTP == "SFTP"
FTP == "FTP"
S3 == "S3"
SMB == "SMB"

\* String.prototype.toLowerCase on the strings of the model (the file names
\* are lower-case already)
toLowerCase(s) ==
  CASE s = "SFTP" -> "sftp"
    [] s = "FTP" -> "ftp"
    [] s = "S3" -> "s3"
    [] s = "SMB" -> "smb"
    [] OTHER -> s

\* the connections of the run: an SFTP server, an S3 bucket, an SMB share and
\* a plain FTP server
Connections ==
  { [id |-> "A", type |-> SFTP], [id |-> "B", type |-> S3], [id |-> "M", type |-> SMB],
    [id |-> "F", type |-> FTP] }

ConnIds == { c.id : c \in Connections }

FileNames == {"f", "g"}

\* `/${name}`: the full path of an entry of the root folder
FullPath(name) == "/" \o name

\* every name a request can carry: the files, and the blank name the rename
\* field of the conflict modal can hold
Names == FileNames \cup {" "}

Paths == { FullPath(n) : n \in Names }

\* what the remote backends hold before the run: every connection has the file
\* /g, and no entry named f
InitRemote ==
  [c \in ConnIds |-> [p \in Paths |-> IF p = FullPath("g") THEN c \o ":" \o p ELSE None]]

\* the error of a failed adapter call (connect, get, put, delete)
AdapterError == "PermissionDenied"
NotFound == "ENOENT"
SrcUnsupported == "Tipo de conexao origem nao suportado"
DstUnsupported == "Tipo de conexao destino nao suportado"
DirUnsupported == "Transferencia de pastas entre servidores nao e suportada ainda"

VARIABLES
  now,      \* Date.now() of the server process
  reqs,     \* the /api/fs/transfer requests: locals, position and response
  disk,     \* the staging files under __dirname
  remote,   \* the files the remote backends hold
  activeConnection,  \* FileExplorer: the connection being browsed (prop)
  files,             \* FileExplorer: the listing of activeConnection
  ui,                \* FileExplorer: the state of the copy/move and conflict modals
  timer,             \* FileExplorer: the pending setTimeout(() => handleConfirmAction(), 100)
  transfers,         \* TransferContext: the transfer records
  handlers,          \* FileExplorer: the running handleConfirmAction calls and their timers
  dl,       \* FileExplorer: the download panel and the running handleDownload calls
  s3req,    \* the /api/fs/s3/rename requests and the bucket they work on
  cred,     \* users.json, credentials.json and the sessions opened with them
  sess,     \* one /api/fs/transfer request followed session by session
  up,       \* the /api/fs/sftp/upload requests and uploads_temp
  ls,       \* a directory and the listing an endpoint returned for it
  probe,    \* a local directory and the connection test run on it
  s3del,    \* a bucket and the /api/fs/s3/delete request working on it
  sftp,     \* the /api/fs/sftp/list and /api/fs/sftp/copy requests, event by event
  undo      \* FileExplorer: the listing, the pending delete and the backend it deletes on

srvVars == <<now, reqs, disk, remote>>
uiVars == <<activeConnection, files, ui, timer, transfers, handlers>>
opVars == <<probe, s3del, sftp, undo>>
extVars == <<dl, s3req, cred, sess, up, ls, probe, s3del, sftp, undo>>
vars == <<now, reqs, disk, remote, activeConnection, files, ui, timer, transfers, handlers,
          dl, s3req, cred, sess, up, ls, probe, s3del, sftp, undo>>

ReqIds == 1..MaxTransfers
Times == 1..MaxTime
TempFiles == Times \X Names
NoFile == [content |-> None, writer |-> 0]

IdleReq ==
  [pc |-> "idle", srcConnection |-> None, dstConnection |-> None, srcPath |-> None,
   dstPath |-> None, fileName |-> None, isMove |-> FALSE, isDir |-> FALSE,
   tempFile |-> None, status |-> 0, error |-> None, log |-> <<>>]

\* the (source, destination) pairs of the requests: both directions between the
\* SFTP server and the bucket, and the SMB share once as source and once as
\* destination
Routes == { <<"A", "B">>, <<"B", "A">>, <<"M", "B">>, <<"A", "M">> }

ConnOf(id) == CHOOSE c \in Connections : c.id = id

\* the request bodies the model sends: the file g of A copied or moved to B
\* under its own name or as f, the file g of B moved to A under either name, g
\* copied as f to and from the SMB share, and a folder copied from A to B
Bodies ==
  { [srcConnection |-> ConnOf(x[1][1]), dstConnection |-> ConnOf(x[1][2]),
     srcPath |-> FullPath("g"), dstPath |-> FullPath(x[2]), fileName |-> x[2],
     isMove |-> x[3], isDir |-> FALSE] :
      x \in { y \in Routes \X FileNames \X BOOLEAN :
                /\ "M" \in {y[1][1], y[1][2]} => (y[2] = "f" /\ ~y[3])
                /\ y[1] = <<"B", "A">> => y[3] } }
  \cup
  { [srcConnection |-> ConnOf("A"), dstConnection |-> ConnOf("B"), srcPath |-> FullPath("g"),
     dstPath |-> FullPath("g"), fileName |-> "g", isMove |-> FALSE, isDir |-> TRUE] }

srcType(r) == toLowerCase(r.srcConnection.type)
dstType(r) == toLowerCase(r.dstConnection.type)

\* the kinds steps 1 to 3 have a branch for
Supported(type) == type \in {"sftp", "ftp", "s3"}

\* path.join(__dirname, `temp_${Date.now()}_${fileName}`)
tempFile(time, fileName) == <<time, fileName>>

\* if (fs.existsSync(tempFile)) fs.unlinkSync(tempFile), at the end of the try block
CleanupOnSuccess(d, tf) == [d EXCEPT ![tf] = NoFile]

CleanupOnError_Skipped(d, tf) == d

\* if (fs.existsSync(tempFile)) fs.unlinkSync(tempFile), in the catch block
CleanupOnError(d, tf) == [d EXCEPT ![tf] = NoFile]

\* the catch block after its cleanup: res.status(500).json({ error: error.message })
Catch(r, err) == [r EXCEPT !.pc = "done", !.status = 500, !.error = err]

\* res.json({ success: true, ... }) after the cleanup of the try block
Success(r) == [r EXCEPT !.pc = "done", !.status = 200]

\* the adapter calls of one request, in the order they are issued and settle
Logged(r, ev) == [r EXCEPT !.log = Append(@, ev)]

IsDirRejected_Never(body) == FALSE

\* if (isDir) return res.status(400)...
IsDirRejected(body) == body.isDir

StartStep1_NoAwait(r) == Logged(Logged([r EXCEPT !.pc = "step1"], "get:start"), "put:start")

\* Step 1 of a supported source: connect and start the download, then await it
StartStep1(r) == Logged([r EXCEPT !.pc = "step1"], "get:start")

\* the handler up to its first await; requests are numbered in the order they
\* arrive
Receive(i, body) ==
  /\ reqs[i].pc = "idle"
  /\ \A j \in ReqIds : j < i => reqs[j].pc # "idle"
  /\ LET r0 == [IdleReq EXCEPT !.srcConnection = body.srcConnection,
                               !.dstConnection = body.dstConnection,
                               !.srcPath = body.srcPath, !.dstPath = body.dstPath,
                               !.fileName = body.fileName, !.isMove = body.isMove,
                               !.isDir = body.isDir]
     IN IF IsDirRejected(body)
        THEN /\ reqs' = [reqs EXCEPT ![i] =
                          [r0 EXCEPT !.pc = "done", !.status = 400, !.error = DirUnsupported]]
             /\ disk' = disk
        ELSE LET r1 == [r0 EXCEPT !.tempFile = tempFile(now, body.fileName)]
             IN IF Supported(srcType(r1))
                THEN /\ reqs' = [reqs EXCEPT ![i] = StartStep1(r1)]
                     /\ disk' = disk
                ELSE /\ reqs' = [reqs EXCEPT ![i] = Catch(r1, SrcUnsupported)]
                     /\ disk' = CleanupOnError(disk, r1.tempFile)
  /\ UNCHANGED <<now, remote>>
  /\ UNCHANGED uiVars
  /\ UNCHANGED extVars

\* Step 1 settles: the download to tempFile succeeded or threw; after a
\* download Step 2 starts the upload, or throws for a destination kind it has
\* no branch for
Step1(i, ok) ==
  LET r == reqs[i]
      src == remote[r.srcConnection.id][r.srcPath]
  IN
  /\ r.pc = "step1"
  /\ IF ok
     THEN /\ src # None
          /\ LET written == [disk EXCEPT ![r.tempFile] = [content |-> src, writer |-> i]]
                 r1 == Logged(r, "get:ok")
             IN IF Supported(dstType(r))
                THEN /\ reqs' = [reqs EXCEPT ![i] = Logged([r1 EXCEPT !.pc = "step2"], "put:start")]
                     /\ disk' = written
                ELSE /\ reqs' = [reqs EXCEPT ![i] = Catch(r1, DstUnsupported)]
                     /\ disk' = CleanupOnError(written, r.tempFile)
     ELSE /\ reqs' = [reqs EXCEPT ![i] =
                       Catch(Logged(r, "get:fail"), IF src = None THEN NotFound ELSE AdapterError)]
          /\ disk' = CleanupOnError(disk, r.tempFile)
  /\ UNCHANGED <<now, remote>>
  /\ UNCHANGED uiVars
  /\ UNCHANGED extVars

\* what follows a successful upload: Step 3 for a move, the response for a copy
AfterUpload(r) ==
  IF r.isMove THEN Logged([r EXCEPT !.pc = "step3"], "del:start") ELSE Success(r)

UploadFailed_Swallowed(r, err) == AfterUpload(Logged(r, "put:fail"))

\* the upload threw: the rejected await leaves the try block for the catch block
UploadFailed(r, err) == Catch(Logged(r, "put:fail"), err)

\* Step 2 settles: the upload of tempFile to dstPath succeeded or threw
Step2(i, ok) ==
  LET r == reqs[i]
      staged == disk[r.tempFile]
  IN
  /\ r.pc = "step2"
  /\ IF ok
     THEN /\ staged # NoFile
          /\ remote' = [remote EXCEPT ![r.dstConnection.id][r.dstPath] = staged.content]
          /\ reqs' = [reqs EXCEPT ![i] = AfterUpload(Logged(r, "put:ok"))]
          /\ disk' = IF r.isMove THEN disk ELSE CleanupOnSuccess(disk, r.tempFile)
     ELSE /\ remote' = remote
          /\ reqs' = [reqs EXCEPT ![i] =
                       UploadFailed(r, IF staged = NoFile THEN NotFound ELSE AdapterError)]
          /\ disk' = CleanupOnError(disk, r.tempFile)
  /\ UNCHANGED now
  /\ UNCHANGED uiVars
  /\ UNCHANGED extVars

\* Step 3 settles: the delete of srcPath succeeded or threw
Step3(i, ok) ==
  LET r == reqs[i]
  IN
  /\ r.pc = "step3"
  /\ IF ok
     THEN /\ remote' = [remote EXCEPT ![r.srcConnection.id][r.srcPath] = None]
          /\ reqs' = [reqs EXCEPT ![i] = Success(Logged(r, "del:ok"))]
          /\ disk' = CleanupOnSuccess(disk, r.tempFile)
     ELSE /\ remote' = remote
          /\ reqs' = [reqs EXCEPT ![i] = Catch(Logged(r, "del:fail"), AdapterError)]
          /\ disk' = CleanupOnError(disk, r.tempFile)
  /\ UNCHANGED now
  /\ UNCHANGED uiVars
  /\ UNCHANGED extVars

\* a millisecond passes
Tick ==
  /\ now < MaxTime
  /\ now' = now + 1
  /\ UNCHANGED <<reqs, disk, remote>>
  /\ UNCHANGED uiVars
  /\ UNCHANGED extVars

InitSrv ==
  /\ now = 1
  /\ reqs = [i \in ReqIds |-> IdleReq]
  /\ disk = [tf \in TempFiles |-> NoFile]
  /\ remote = InitRemote

\* ------------------------------------------------------------ file explorer
\* SpecUI follows one copy/move action of the user from the context menu to the
\* end of its transfer. Every action gets a record of its own (addTransfer draws
\* a fresh random id), timers of its own and a request of its own; this is the
\* id of the one followed, which is also the slot of its request on the server.
RecIds == {1}

\* activeConnection / destConnection = null
NoConn == [id |-> None, type |-> None]

\* targetActionFile = null
NoItem == [name |-> None, type |-> None]

\* the modal state after handleCloseModal, with the conflict state reset
ClosedUi ==
  [targetActionFile |-> NoItem, actionType |-> None, destConnection |-> NoConn,
   destLoading |-> FALSE, destFiles |-> {}, showConflictModal |-> FALSE,
   conflictAction |-> None, conflictRenameValue |-> ""]

\* no setTimeout pending; a pending one holds the render whose
\* handleConfirmAction it will call
NoTimer == [set |-> FALSE, closure |-> ClosedUi]

NoTransfer ==
  [present |-> FALSE, fileName |-> None, actionType |-> None, progress |-> 0,
   status |-> None, failed |-> FALSE]

NoResponse == [status |-> 0, error |-> None]

NoBody ==
  [srcConnection |-> NoConn, dstConnection |-> NoConn, srcPath |-> None, dstPath |-> None,
   fileName |-> None, isMove |-> FALSE, isDir |-> FALSE]

IdleHandler ==
  [pc |-> "none", endpoint |-> None, body |-> NoBody, response |-> NoResponse,
   interval |-> FALSE, progressInterval |-> FALSE, ref |-> None,
   currentProgress |-> 0, ticks |-> 0, removeTimer |-> FALSE]

\* Math.random() * 15 + 5: a value of [5, 20)
RandomValues == {5, 19}

\* what the user can type into the rename field
RenameInputs == Names

\* String.prototype.trim on the rename values
trim(s) == IF s = " " THEN "" ELSE s

Min(a, b) == IF a < b THEN a ELSE b

\* a || b on strings
OrElse(a, b) == IF a = "" \/ a = None THEN b ELSE a

\* the entries getFilesForConnection returns for the root folder of a connection
getFilesForConnection(store, conn) ==
  { [name |-> n, type |-> "file"] : n \in { m \in Names : store[conn.id][FullPath(m)] # None } }

isCloudProvider(type) == type \in {"Google Drive", "Dropbox", "OneDrive"}

\* conflictAction === 'rename' ? conflictRenameValue : targetActionFile.name
finalFileName(c) ==
  IF c.conflictAction = "rename" THEN c.conflictRenameValue ELSE c.targetActionFile.name

\* destFiles.some(f => same lower-cased name and same type)
existsInDest(c) ==
  \E f \in c.destFiles :
    /\ toLowerCase(f.name) = toLowerCase(finalFileName(c))
    /\ f.type = c.targetActionFile.type

Endpoint_FtpCopySent(src, dst, isMove) ==
  LET isSameConnection == dst.id = src.id IN
  IF isCloudProvider(src.type) THEN "rclone"
  ELSE IF src.type = SFTP /\ isSameConnection THEN "sftp"
  ELSE IF src.type = FTP /\ isSameConnection THEN "ftp"
  ELSE IF src.type = S3 /\ isSameConnection THEN "s3"
  ELSE "transfer"

\* the branch of the if/else chain of handleConfirmAction
Endpoint(src, dst, isMove) ==
  LET isSameConnection == dst.id = src.id IN
  IF isCloudProvider(src.type) THEN "rclone"
  ELSE IF src.type = SFTP /\ isSameConnection THEN "sftp"
  ELSE IF src.type = FTP /\ isSameConnection THEN (IF isMove THEN "ftp" ELSE "throw")
  ELSE IF src.type = S3 /\ isSameConnection THEN "s3"
  ELSE "transfer"

FtpCopyUnsupported == "Copiar nao e suportado em conexoes FTP. Use Mover."
RefreshError == "Erro ao listar arquivos"
Concluido == "Concluido!"

\* setTransferStatus(transferId, ...) of the branch taken
StatusFor(endpoint, isMove) ==
  CASE endpoint = "rclone" -> IF isMove THEN "Movendo via cloud..." ELSE "Copiando via cloud..."
    [] endpoint = "sftp" -> IF isMove THEN "Movendo via SFTP..." ELSE "Copiando via SFTP..."
    [] endpoint = "ftp" -> "Movendo via FTP..."
    [] endpoint = "s3" -> IF isMove THEN "Movendo via S3..." ELSE "Copiando via S3..."
    [] endpoint = "transfer" -> "Transferindo entre servidores..."
    [] OTHER -> "Iniciando transferencia..."

\* TransferContext.updateTransferProgress
updateTransferProgress(ts, id, progress) ==
  [t \in RecIds |-> IF t = id /\ ts[t].present THEN [ts[t] EXCEPT !.progress = progress] ELSE ts[t]]

\* TransferContext.setTransferFailed
setTransferFailed(ts, id, error) ==
  [t \in RecIds |-> IF t = id /\ ts[t].present
                    THEN [ts[t] EXCEPT !.failed = TRUE, !.status = error] ELSE ts[t]]

\* TransferContext.completeTransfer (the record update; the removal waits 2000 ms)
completeTransfer(ts, id) ==
  [t \in RecIds |-> IF t = id /\ ts[t].present
                    THEN [ts[t] EXCEPT !.progress = 100, !.status = Concluido] ELSE ts[t]]

\* TransferContext.removeTransfer
removeTransfer(ts, id) == [ts EXCEPT ![id] = NoTransfer]

\* transferIntervalRef.current.set(transferId, interval), then
\* transferIntervalRef.current.set(transferId, progressInterval): one entry per id
RefAfterStart == "progressInterval"

\* const interval = transferIntervalRef.current.get(transferId);
\* if (interval) { clearInterval(interval); transferIntervalRef.current.delete(transferId) }
ClearRef(h) ==
  [h EXCEPT !.interval = IF h.ref = "interval" THEN FALSE ELSE @,
            !.progressInterval = IF h.ref = "progressInterval" THEN FALSE ELSE @,
            !.ref = None]

ResponseOk_Always(resp) == TRUE

\* response.ok
ResponseOk(resp) == resp.status \in 200..299

\* the response the awaited fetch of transfer t resolves with
Response(t) ==
  IF handlers[t].endpoint = "transfer"
  THEN [status |-> reqs[t].status, error |-> reqs[t].error]
  ELSE handlers[t].response

Responded(t) ==
  IF handlers[t].endpoint = "transfer" THEN reqs[t].pc = "done"
  ELSE handlers[t].response # NoResponse

\* handleConfirmAction past the conflict check: the record, the two progress
\* timers and the request of the branch taken
StartTransfer(c, t) ==
  LET isMove == c.actionType = "move"
      name == finalFileName(c)
      endpoint == Endpoint(activeConnection, c.destConnection, isMove)
      body == [srcConnection |-> activeConnection, dstConnection |-> c.destConnection,
               srcPath |-> FullPath(c.targetActionFile.name), dstPath |-> FullPath(name),
               fileName |-> name, isMove |-> isMove,
               isDir |-> (c.targetActionFile.type = "folder")]
      record == [present |-> TRUE, fileName |-> name, actionType |-> c.actionType,
                 progress |-> 0, status |-> StatusFor(endpoint, isMove), failed |-> FALSE]
      started == [IdleHandler EXCEPT !.pc = "fetch", !.endpoint = endpoint, !.body = body,
                                     !.interval = TRUE, !.progressInterval = TRUE,
                                     !.ref = RefAfterStart]
      added == [transfers EXCEPT ![t] = record]
  IN
  /\ ui' = [ui EXCEPT !.conflictAction = None, !.showConflictModal = FALSE,
                      !.targetActionFile = NoItem, !.actionType = None,
                      !.destConnection = NoConn, !.destFiles = {}, !.destLoading = FALSE]
  /\ IF endpoint = "throw"
     THEN /\ handlers' = [handlers EXCEPT ![t] = [ClearRef(started) EXCEPT !.pc = "done"]]
          /\ transfers' = setTransferFailed(added, t, FtpCopyUnsupported)
     ELSE /\ handlers' = [handlers EXCEPT ![t] = started]
          /\ transfers' = added

\* handleConfirmAction as the render c closed over it
handleConfirmAction(c) ==
  IF c.targetActionFile = NoItem \/ c.destConnection = NoConn \/ activeConnection = NoConn
  THEN UNCHANGED <<ui, transfers, handlers>>
  ELSE IF existsInDest(c) /\ c.conflictAction = None
  THEN /\ ui' = [ui EXCEPT !.conflictRenameValue = c.targetActionFile.name,
                           !.showConflictModal = TRUE]
       /\ UNCHANGED <<transfers, handlers>>
  ELSE \E t \in RecIds :
         /\ handlers[t].pc = "none"
         /\ \A u \in RecIds : u < t => handlers[u].pc # "none"
         /\ StartTransfer(c, t)

ModalOpen == ui.targetActionFile # NoItem /\ ~ui.showConflictModal /\ ~timer.set

\* handleInitiateCopy / handleInitiateMove
InitiateAction(file, type) ==
  /\ ui.targetActionFile = NoItem /\ ~ui.showConflictModal /\ ~timer.set
  /\ file \in files
  /\ \E t \in RecIds : handlers[t].pc = "none"
  /\ ui' = [ui EXCEPT !.targetActionFile = file, !.actionType = type,
                      !.destConnection = NoConn, !.destFiles = {}, !.destLoading = FALSE]
  /\ UNCHANGED <<activeConnection, files, timer, transfers, handlers>>
  /\ UNCHANGED srvVars
  /\ UNCHANGED extVars

\* a connection of the destination browser is clicked; the effect starts the load
SelectDest(conn) ==
  /\ ModalOpen /\ ui.destConnection = NoConn
  /\ ui' = [ui EXCEPT !.destConnection = conn, !.destLoading = TRUE]
  /\ UNCHANGED <<activeConnection, files, timer, transfers, handlers>>
  /\ UNCHANGED srvVars
  /\ UNCHANGED extVars

\* getFilesForConnection(destConnection, destPath) settles
DestLoaded(ok) ==
  /\ ui.destLoading
  /\ ui' = [ui EXCEPT !.destLoading = FALSE,
                      !.destFiles = IF ok THEN getFilesForConnection(remote, ui.destConnection)
                                    ELSE {}]
  /\ UNCHANGED <<activeConnection, files, timer, transfers, handlers>>
  /\ UNCHANGED srvVars
  /\ UNCHANGED extVars

\* handleCloseModal, and the effect that empties destFiles
CloseModal ==
  /\ ModalOpen
  /\ ui' = [ui EXCEPT !.targetActionFile = NoItem, !.actionType = None,
                      !.destConnection = NoConn, !.destFiles = {}, !.destLoading = FALSE]
  /\ UNCHANGED <<activeConnection, files, timer, transfers, handlers>>
  /\ UNCHANGED srvVars
  /\ UNCHANGED extVars

\* the Mover Aqui / Copiar Aqui button
ClickConfirm ==
  /\ ModalOpen /\ ui.destConnection # NoConn
  /\ handleConfirmAction(ui)
  /\ UNCHANGED <<activeConnection, files, timer>>
  /\ UNCHANGED srvVars
  /\ UNCHANGED extVars

\* the Substituir button of the conflict modal
ClickReplace ==
  /\ ui.showConflictModal /\ ~timer.set
  /\ ui' = [ui EXCEPT !.conflictAction = "replace", !.showConflictModal = FALSE]
  /\ timer' = [set |-> TRUE, closure |-> ui]
  /\ UNCHANGED <<activeConnection, files, transfers, handlers>>
  /\ UNCHANGED srvVars
  /\ UNCHANGED extVars

\* the Renomear button of the conflict modal
ClickRename ==
  /\ ui.showConflictModal /\ ~timer.set /\ ui.conflictAction # "rename"
  /\ ui' = [ui EXCEPT !.conflictAction = "rename"]
  /\ UNCHANGED <<activeConnection, files, timer, transfers, handlers>>
  /\ UNCHANGED srvVars
  /\ UNCHANGED extVars

\* the rename input
TypeRename(v) ==
  /\ ui.showConflictModal /\ ~timer.set /\ ui.conflictAction = "rename"
  /\ v # ui.conflictRenameValue
  /\ ui' = [ui EXCEPT !.conflictRenameValue = v]
  /\ UNCHANGED <<activeConnection, files, timer, transfers, handlers>>
  /\ UNCHANGED srvVars
  /\ UNCHANGED extVars

\* the Continuar button of the conflict modal
ClickContinuar ==
  /\ ui.showConflictModal /\ ~timer.set /\ ui.conflictAction = "rename"
  /\ trim(ui.conflictRenameValue) # ""
  /\ ui' = [ui EXCEPT !.showConflictModal = FALSE]
  /\ timer' = [set |-> TRUE, closure |-> ui]
  /\ UNCHANGED <<activeConnection, files, transfers, handlers>>
  /\ UNCHANGED srvVars
  /\ UNCHANGED extVars

\* the Cancelar button of the conflict modal
ClickCancelar ==
  /\ ui.showConflictModal /\ ~timer.set
  /\ ui' = [ui EXCEPT !.showConflictModal = FALSE, !.conflictAction = None]
  /\ UNCHANGED <<activeConnection, files, timer, transfers, handlers>>
  /\ UNCHANGED srvVars
  /\ UNCHANGED extVars

\* setTimeout(() => handleConfirmAction(), 100) fires
TimerFires ==
  /\ timer.set
  /\ handleConfirmAction(timer.closure)
  /\ timer' = NoTimer
  /\ UNCHANGED <<activeConnection, files>>
  /\ UNCHANGED srvVars
  /\ UNCHANGED extVars

\* the first setInterval: updateTransferProgress(transferId, Math.min(95, random))
IntervalTick(t, rnd) ==
  /\ handlers[t].interval /\ handlers[t].ticks < MaxTicks
  /\ transfers' = updateTransferProgress(transfers, t, Min(95, rnd))
  /\ handlers' = [handlers EXCEPT ![t].ticks = @ + 1]
  /\ UNCHANGED <<activeConnection, files, ui, timer>>
  /\ UNCHANGED srvVars
  /\ UNCHANGED extVars

\* the second setInterval: currentProgress grows by random up to 95
ProgressTick(t, rnd) ==
  /\ handlers[t].progressInterval /\ handlers[t].ticks < MaxTicks
  /\ IF handlers[t].currentProgress >= 95
     THEN /\ handlers' = [handlers EXCEPT ![t].ticks = @ + 1]
          /\ transfers' = transfers
     ELSE LET cur == Min(handlers[t].currentProgress + rnd, 95) IN
          /\ handlers' = [handlers EXCEPT ![t].ticks = @ + 1, ![t].currentProgress = cur]
          /\ transfers' = updateTransferProgress(transfers, t, cur)
  /\ UNCHANGED <<activeConnection, files, ui, timer>>
  /\ UNCHANGED srvVars
  /\ UNCHANGED extVars

\* the request of the cross-server branch reaches POST /api/fs/transfer
Deliver(t) ==
  /\ handlers[t].pc = "fetch" /\ handlers[t].endpoint = "transfer"
  /\ t \in ReqIds
  /\ Receive(t, handlers[t].body)

\* the same-connection endpoints (/api/fs/sftp/rename|copy, /api/fs/s3/rename|copy,
\* /api/fs/ftp/rename, /api/rclone/move|copy) answer: the copy, then for a move
\* the delete of the old entry (S3: CopyObject, then DeleteObjects of the old key;
\* a rename of a path to itself leaves an SFTP or FTP file alone)
SameServer(t, ok) ==
  LET b == handlers[t].body
      c == b.srcConnection.id
      copied == [remote EXCEPT ![c][b.dstPath] = remote[c][b.srcPath]]
  IN
  /\ handlers[t].pc = "fetch" /\ handlers[t].endpoint \in {"rclone", "sftp", "ftp", "s3"}
  /\ handlers[t].response = NoResponse
  /\ IF ok /\ remote[c][b.srcPath] # None
     THEN /\ remote' = IF ~b.isMove THEN copied
                       ELSE IF b.srcPath = b.dstPath /\ handlers[t].endpoint # "s3" THEN remote
                       ELSE [copied EXCEPT ![c][b.srcPath] = None]
          /\ handlers' = [handlers EXCEPT ![t].response = [status |-> 200, error |-> None]]
     ELSE /\ remote' = remote
          /\ handlers' = [handlers EXCEPT ![t].response =
                            [status |-> 500,
                             error |-> IF remote[c][b.srcPath] = None THEN NotFound ELSE AdapterError]]
  /\ UNCHANGED <<now, reqs, disk>>
  /\ UNCHANGED <<activeConnection, files, ui, timer, transfers>>
  /\ UNCHANGED extVars

FetchSettled_Resends(t) ==
  LET resp == Response(t)
      fallback == IF handlers[t].body.isMove THEN "Erro ao mover" ELSE "Erro ao copiar"
  IN
  /\ handlers[t].pc = "fetch" /\ Responded(t)
  /\ IF ResponseOk(resp)
     THEN /\ handlers' = [handlers EXCEPT ![t].pc = "refresh"]
          /\ transfers' = transfers
     ELSE /\ handlers' = [handlers EXCEPT ![t] = [ClearRef(@) EXCEPT !.response = NoResponse]]
          /\ transfers' = setTransferFailed(transfers, t, OrElse(resp.error, fallback))
  /\ UNCHANGED <<activeConnection, files, ui, timer>>
  /\ UNCHANGED srvVars
  /\ UNCHANGED extVars

\* the awaited fetch resolves: a response that is not ok is thrown and caught
FetchSettled(t) ==
  LET resp == Response(t)
      fallback == IF handlers[t].body.isMove THEN "Erro ao mover" ELSE "Erro ao copiar"
  IN
  /\ handlers[t].pc = "fetch" /\ Responded(t)
  /\ IF ResponseOk(resp)
     THEN /\ handlers' = [handlers EXCEPT ![t].pc = "refresh"]
          /\ transfers' = transfers
     ELSE /\ handlers' = [handlers EXCEPT ![t] = [ClearRef(@) EXCEPT !.pc = "done"]]
          /\ transfers' = setTransferFailed(transfers, t, OrElse(resp.error, fallback))
  /\ UNCHANGED <<activeConnection, files, ui, timer>>
  /\ UNCHANGED srvVars
  /\ UNCHANGED extVars

\* the refresh of the source listing settles; then completeTransfer, or the
\* catch block when getFilesForConnection threw
RefreshSettled(t, ok) ==
  /\ handlers[t].pc = "refresh"
  /\ IF ok
     THEN /\ files' = getFilesForConnection(remote, handlers[t].body.srcConnection)
          /\ handlers' = [handlers EXCEPT ![t] =
                            [ClearRef(@) EXCEPT !.pc = "done", !.removeTimer = TRUE]]
          /\ transfers' = completeTransfer(transfers, t)
     ELSE /\ files' = files
          /\ handlers' = [handlers EXCEPT ![t] = [ClearRef(@) EXCEPT !.pc = "done"]]
          /\ transfers' = setTransferFailed(transfers, t, RefreshError)
  /\ UNCHANGED <<activeConnection, ui, timer>>
  /\ UNCHANGED srvVars
  /\ UNCHANGED extVars

\* the setTimeout of completeTransfer removes the record after 2000 ms
AutoRemove(t) ==
  /\ handlers[t].removeTimer
  /\ transfers' = removeTransfer(transfers, t)
  /\ handlers' = [handlers EXCEPT ![t].removeTimer = FALSE]
  /\ UNCHANGED <<activeConnection, files, ui, timer>>
  /\ UNCHANGED srvVars
  /\ UNCHANGED extVars

\* the Cancelar (X), Fechar and Repetir buttons of a TransferItem
RemoveTransfer(t) ==
  /\ transfers[t].present
  /\ transfers[t].failed \/ transfers[t].progress < 100
  /\ transfers' = removeTransfer(transfers, t)
  /\ UNCHANGED <<activeConnection, files, ui, timer, handlers>>
  /\ UNCHANGED srvVars
  /\ UNCHANGED extVars

\* ------------------------------------------------------------ downloads
MaxDownloads == 2      \* handleDownload calls in one run
FileChunks == 2        \* chunks the body of a downloaded file arrives in

DlIds == 1..MaxDownloads

\* the entries of the listing a download can be asked for
DlItems == { [name |-> "g", type |-> "file"], [name |-> "d", type |-> "folder"] }

\* a handleDownload call that has not started: its locals, the signal of its
\* AbortController and the pending reset timer of its success path
IdleCall ==
  [pc |-> "none", file |-> NoItem, total |-> 0, received |-> 0, aborted |-> FALSE,
   cancelled |-> FALSE, timer |-> FALSE]

IdleDl ==
  [downloading |-> FALSE, downloadProgress |-> 0, downloadFileName |-> "",
   downloadFailed |-> FALSE, downloadingFile |-> NoItem, controller |-> 0,
   calls |-> [d \in DlIds |-> IdleCall], saved |-> {}]

\* Math.round((received / total) * 100)
RoundPercent(received, total) == (200 * received + total) \div (2 * total)

\* the call is waiting for the response or for a chunk of its body
Downloading(c) == c.pc \in {"fetch", "reading"}

\* setDownloading(false); setDownloadProgress(0); setDownloadFileName('');
\* setDownloadingFile(null)
ResetPanel(s) ==
  [s EXCEPT !.downloading = FALSE, !.downloadProgress = 0, !.downloadFileName = "",
            !.downloadingFile = NoItem]

\* handleDownload up to its first await: the panel is set, a new
\* AbortController replaces the one in the ref, a folder is refused
handleDownload(d, file) ==
  LET shown == [dl EXCEPT !.downloading = TRUE, !.downloadProgress = 0,
                          !.downloadFileName = file.name, !.downloadFailed = FALSE,
                          !.downloadingFile = file, !.controller = d]
  IN
  IF file.type = "folder"
  THEN [shown EXCEPT !.downloading = FALSE,
                     !.calls[d] = [IdleCall EXCEPT !.pc = "refused", !.file = file]]
  ELSE [shown EXCEPT !.calls[d] = [IdleCall EXCEPT !.pc = "fetch", !.file = file]]

FreeCall(d) ==
  /\ dl.calls[d].pc = "none"
  /\ \A e \in DlIds : e < d => dl.calls[e].pc # "none"

\* Baixar in the menu of an entry
StartDownload(d, file) ==
  /\ FreeCall(d)
  /\ dl' = handleDownload(d, file)
  /\ UNCHANGED <<srvVars, uiVars, s3req, cred, sess, up, ls, opVars>>

\* handleRetryDownload: the Tentar novamente button of the failed panel
RetryDownload(d) ==
  /\ FreeCall(d)
  /\ dl.downloading /\ dl.downloadFailed /\ dl.downloadingFile # NoItem
  /\ dl' = handleDownload(d, dl.downloadingFile)
  /\ UNCHANGED <<srvVars, uiVars, s3req, cred, sess, up, ls, opVars>>

abort_Ignored(calls, c) == calls

\* AbortController.abort(): the signal of controller c is aborted
abort(calls, c) == [calls EXCEPT ![c].aborted = TRUE]

\* handleCancelDownload: the X of the panel, shown while downloading && !downloadFailed
CancelDownload ==
  /\ dl.downloading /\ ~dl.downloadFailed
  /\ LET c == dl.controller
         noted == IF c # 0 /\ Downloading(dl.calls[c])
                  THEN [dl.calls EXCEPT ![c].cancelled = TRUE] ELSE dl.calls
     IN dl' = [dl EXCEPT !.controller = 0,
                         !.calls = IF c = 0 THEN dl.calls ELSE abort(noted, c)]
  /\ UNCHANGED <<srvVars, uiVars, s3req, cred, sess, up, ls, opVars>>

\* the pending fetch or reader.read() of an aborted signal rejects with an
\* AbortError: the catch block resets the panel
AbortRejects(d) ==
  /\ Downloading(dl.calls[d]) /\ dl.calls[d].aborted
  /\ dl' = [ResetPanel(dl) EXCEPT !.calls[d].pc = "aborted"]
  /\ UNCHANGED <<srvVars, uiVars, s3req, cred, sess, up, ls, opVars>>

\* await fetch(...) settles: a response with a body to read (total from
\* content-length, or file.size || 0 without it), or an error that is thrown
FetchResponds(d, ok, total) ==
  /\ dl.calls[d].pc = "fetch" /\ ~dl.calls[d].aborted
  /\ IF ok
     THEN dl' = [dl EXCEPT !.calls[d].pc = "reading", !.calls[d].total = total]
     ELSE dl' = [dl EXCEPT !.calls[d].pc = "failed", !.downloadFailed = TRUE]
  /\ UNCHANGED <<srvVars, uiVars, s3req, cred, sess, up, ls, opVars>>

\* await reader.read() yields a chunk
ReadChunk(d) ==
  LET c == dl.calls[d]
      received == c.received + 1
  IN
  /\ c.pc = "reading" /\ ~c.aborted /\ c.received < FileChunks
  /\ dl' = [dl EXCEPT !.calls[d].received = received,
                      !.downloadProgress = IF c.total > 0 THEN RoundPercent(received, c.total)
                                           ELSE -1]
  /\ UNCHANGED <<srvVars, uiVars, s3req, cred, sess, up, ls, opVars>>

\* await reader.read() rejects (the connection broke)
ReadFails(d) ==
  /\ dl.calls[d].pc = "reading" /\ ~dl.calls[d].aborted
  /\ dl' = [dl EXCEPT !.calls[d].pc = "failed", !.downloadFailed = TRUE]
  /\ UNCHANGED <<srvVars, uiVars, s3req, cred, sess, up, ls, opVars>>

\* await reader.read() yields done: the blob is handed to the browser through
\* link.click(), the progress is set to 100 and the reset timer is started
ReadDone(d) ==
  LET c == dl.calls[d] IN
  /\ c.pc = "reading" /\ ~c.aborted /\ c.received = FileChunks
  /\ dl' = [dl EXCEPT !.calls[d].pc = "completed", !.calls[d].timer = TRUE,
                      !.saved = @ \cup {d}, !.downloadProgress = 100]
  /\ UNCHANGED <<srvVars, uiVars, s3req, cred, sess, up, ls, opVars>>

\* the setTimeout of the success path fires after 1000 ms
ResetTimer(d) ==
  /\ dl.calls[d].timer
  /\ dl' = [ResetPanel(dl) EXCEPT !.calls[d].timer = FALSE]
  /\ UNCHANGED <<srvVars, uiVars, s3req, cred, sess, up, ls, opVars>>

\* ------------------------------------------------------------ S3 rename
MaxRenames == 2        \* /api/fs/s3/rename requests in one run

S3Ids == 1..MaxRenames
Keys == {"old.txt", "new.txt"}

\* the bucket before the run: old.txt exists, new.txt does not
InitBucket == [k \in Keys |-> IF k = "old.txt" THEN "v1" ELSE None]

IdleRename == [pc |-> "idle", oldKey |-> None, newKey |-> None, status |-> 0, log |-> <<>>]

IdleS3 == [bucket |-> InitBucket, calls |-> [i \in S3Ids |-> IdleRename]]

\* oldKey and newKey of the request; credentials resolved (explicit or stored) or not
RenameBodies == [oldKey : Keys, newKey : Keys, credentials : BOOLEAN]

RenameStart_DeleteFirst(r) == [r EXCEPT !.pc = "delete"]

\* createS3Client(...), then the CopyObjectCommand is sent first
RenameStart(r) == [r EXCEPT !.pc = "copy"]

\* POST /api/fs/s3/rename up to its first await
S3Rename(i, body) ==
  LET r == [IdleRename EXCEPT !.oldKey = body.oldKey, !.newKey = body.newKey] IN
  /\ s3req.calls[i].pc = "idle"
  /\ \A j \in S3Ids : j < i => s3req.calls[j].pc # "idle"
  /\ s3req' = [s3req EXCEPT !.calls[i] =
                  IF ~body.credentials THEN [r EXCEPT !.pc = "done", !.status = 400]
                  ELSE RenameStart(r)]
  /\ UNCHANGED <<srvVars, uiVars, dl, cred, sess, up, ls, opVars>>

\* await client.send(copyCommand) settles
S3Copy(i, ok) ==
  LET r == s3req.calls[i] IN
  /\ r.pc = "copy"
  /\ IF ok
     THEN /\ s3req.bucket[r.oldKey] # None
          /\ s3req' = [s3req EXCEPT !.bucket[r.newKey] = s3req.bucket[r.oldKey],
                                    !.calls[i] = [r EXCEPT !.pc = "delete",
                                                           !.log = Append(@, "copy:ok")]]
     ELSE s3req' = [s3req EXCEPT !.calls[i] = [r EXCEPT !.pc = "done", !.status = 500,
                                                        !.log = Append(@, "copy:fail")]]
  /\ UNCHANGED <<srvVars, uiVars, dl, cred, sess, up, ls, opVars>>

\* await client.send(deleteCommand) settles: the key is deleted, or the command
\* throws, or DeleteObjects answers 200 with the key in its Errors list (which
\* the handler does not read)
S3Delete(i, outcome) ==
  LET r == s3req.calls[i] IN
  /\ r.pc = "delete"
  /\ s3req' = CASE outcome = "deleted" ->
                    [s3req EXCEPT !.bucket[r.oldKey] = None,
                                  !.calls[i] = [r EXCEPT !.pc = "done", !.status = 200,
                                                         !.log = Append(@, "del:ok")]]
               [] outcome = "throws" ->
                    [s3req EXCEPT !.calls[i] = [r EXCEPT !.pc = "done", !.status = 500,
                                                         !.log = Append(@, "del:fail")]]
               [] OTHER ->
                    [s3req EXCEPT !.calls[i] = [r EXCEPT !.pc = "done", !.status = 200,
                                                         !.log = Append(@, "del:fail")]]
  /\ UNCHANGED <<srvVars, uiVars, dl, cred, sess, up, ls, opVars>>

\* ------------------------------------------------------------ credentials
Emails == {"ann", "bob"}
CredConnIds == {"c1"}

Key_ConnectionOnly(userId, connectionId) == connectionId

\* `${userId}:${connectionId}`, the key of credentials.json
Key(userId, connectionId) == ToString(userId) \o ":" \o connectionId

\* the secret a user types when saving credentials
Secret(e) == "pw-" \o e

\* encrypt(text) / decrypt(encryptedObj) with the ENCRYPTION_KEY of the process
encrypt(text) == <<"aes-256-gcm", text>>
decrypt(obj) == IF obj[1] = "aes-256-gcm" THEN obj[2] ELSE None

NoEntry == [username |-> encrypt(None), password |-> encrypt(None), port |-> 0]
NoStored == [username |-> None, password |-> None, port |-> 0]

\* the session an SFTP route opened last: who asked, the body of the request,
\* whether stored credentials existed, and what client.connect was given
NoSession ==
  [by |-> None, body |-> [connectionId |-> None, username |-> None, password |-> None, port |-> 0],
   stored |-> FALSE, username |-> None, password |-> None, port |-> 0]

IdleCred ==
  [users |-> [e \in Emails |-> 0],
   credentials |-> [k \in { Key(t, c) : t \in Times, c \in CredConnIds } |-> NoEntry],
   seen |-> [e \in Emails |-> {}],
   session |-> NoSession]

\* getConnectionCredentials(connectionId, userId): null (NoStored) when nothing
\* is stored under the key or a field does not decrypt
getConnectionCredentials(credentials, connectionId, userId) ==
  LET stored == credentials[Key(userId, connectionId)] IN
  IF stored = NoEntry THEN NoStored
  ELSE IF decrypt(stored.username) = None \/ decrypt(stored.password) = None THEN NoStored
  ELSE [username |-> decrypt(stored.username), password |-> decrypt(stored.password),
        port |-> stored.port]

\* POST /api/auth/register: a new email gets the id Date.now().toString(); the
\* handler then runs bcrypt.hashSync(password, 10) before it returns, so the
\* next request is served in a later millisecond
Register(e) ==
  /\ cred.users[e] = 0
  /\ now <= MaxTime
  /\ cred' = [cred EXCEPT !.users[e] = now]
  /\ now' = now + 1
  /\ UNCHANGED <<reqs, disk, remote, uiVars, dl, s3req, sess, up, ls, opVars>>

\* POST /api/credentials/:connectionId by the token of e
SaveCredentials(e, c, port) ==
  /\ cred.users[e] # 0
  /\ cred' = [cred EXCEPT !.credentials[Key(cred.users[e], c)] =
                 [username |-> encrypt(e), password |-> encrypt(Secret(e)), port |-> port]]
  /\ UNCHANGED <<srvVars, uiVars, dl, s3req, sess, up, ls, opVars>>

\* GET /api/credentials/:connectionId by the token of e
ReadCredentials(e, c) ==
  LET credentials == getConnectionCredentials(cred.credentials, c, cred.users[e]) IN
  /\ cred.users[e] # 0
  /\ credentials # NoStored
  /\ cred' = [cred EXCEPT !.seen[e] = @ \cup {credentials.password}]
  /\ UNCHANGED <<srvVars, uiVars, dl, s3req, sess, up, ls, opVars>>

\* DELETE /api/credentials/:connectionId by the token of e
DeleteCredentials(e, c) ==
  /\ cred.users[e] # 0
  /\ cred.credentials[Key(cred.users[e], c)] # NoEntry
  /\ cred' = [cred EXCEPT !.credentials[Key(cred.users[e], c)] = NoEntry]
  /\ UNCHANGED <<srvVars, uiVars, dl, s3req, sess, up, ls, opVars>>

\* the bodies of an SFTP request: connectionId, username, password, port, each
\* present or not (None and 0 stand for undefined)
ListBodies ==
  [connectionId : CredConnIds \cup {None}, username : {None, "typed-user"},
   password : {None, "typed-pw"}, port : {0, 2222}]

\* POST /api/fs/sftp/list (and /download, /upload, ...) by the token of e up to
\* client.connect: the credentials the session is opened with
SftpList(e, body) ==
  LET useStored == body.connectionId # None /\ (body.username = None \/ body.password = None)
      stored == IF body.connectionId = None THEN NoStored
                ELSE getConnectionCredentials(cred.credentials, body.connectionId, cred.users[e])
      found == useStored /\ stored # NoStored
      finalUsername == IF found THEN stored.username ELSE body.username
      finalPassword == IF found THEN stored.password ELSE body.password
      finalPort == IF found THEN (IF stored.port # 0 THEN stored.port ELSE body.port)
                   ELSE body.port
  IN
  /\ cred.users[e] # 0
  /\ finalUsername # None /\ finalPassword # None
  /\ cred' = [cred EXCEPT !.session =
                 [by |-> e, body |-> body, stored |-> stored # NoStored,
                  username |-> finalUsername, password |-> finalPassword,
                  port |-> IF finalPort # 0 THEN finalPort ELSE 22]]
  /\ UNCHANGED <<srvVars, uiVars, dl, s3req, sess, up, ls, opVars>>

\* ------------------------------------------------------------ transport sessions
\* the connection types POST /api/fs/transfer accepts, lower-cased
SessTypes == {"sftp", "ftp", "s3"}

\* one request to POST /api/fs/transfer seen from its transport sessions:
\* phase (download, upload, delete), stage within the phase, the sessions open
\* now, the sessions opened so far and the status of the response
IdleSess ==
  [pc |-> "idle", stage |-> "connect", src |-> "sftp", dst |-> "sftp", isMove |-> FALSE,
   open |-> 0, opened |-> 0, status |-> 0]

\* the connection type the running phase talks to
PhaseType(s) == IF s.pc = "upload" THEN s.dst ELSE s.src

\* the phase is over: the next phase, or the response with success
PhaseDone(s) ==
  IF s.pc = "download" THEN [s EXCEPT !.pc = "upload", !.stage = "connect"]
  ELSE IF s.pc = "upload" /\ s.isMove THEN [s EXCEPT !.pc = "delete", !.stage = "connect"]
  ELSE [s EXCEPT !.pc = "done", !.status = 200]

\* catch (error): res.status(500)
PhaseThrows(s) == [s EXCEPT !.pc = "done", !.status = 500]

\* POST /api/fs/transfer of a file arrives
SessStart(src, dst, isMove) ==
  /\ sess.pc = "idle"
  /\ sess' = [sess EXCEPT !.pc = "download", !.src = src, !.dst = dst, !.isMove = isMove]
  /\ UNCHANGED <<srvVars, uiVars, dl, s3req, cred, up, ls, opVars>>

\* await connectSFTP(...): 'ready' and an sftp channel, 'ready' and no channel
\* (client.end(), reject), the 15 s timeout (client.end(), reject) or 'error'
\* before the connection is up (reject)
SftpConnect(outcome) ==
  /\ sess.pc \in {"download", "upload", "delete"}
  /\ sess.stage = "connect"
  /\ PhaseType(sess) = "sftp"
  /\ sess' = IF outcome = "ready"
               THEN [sess EXCEPT !.stage = "op", !.open = @ + 1, !.opened = @ + 1]
             ELSE IF outcome = "nochannel"
               THEN [PhaseThrows(sess) EXCEPT !.opened = @ + 1]
             ELSE PhaseThrows(sess)
  /\ UNCHANGED <<srvVars, uiVars, dl, s3req, cred, up, ls, opVars>>

\* the callback of sftp.fastGet / fastPut / unlink: client.end(), then reject
\* or resolve
SftpOp(ok) ==
  /\ sess.pc \in {"download", "upload", "delete"}
  /\ sess.stage = "op"
  /\ PhaseType(sess) = "sftp"
  /\ sess' = IF ok THEN PhaseDone([sess EXCEPT !.open = @ - 1])
             ELSE PhaseThrows([sess EXCEPT !.open = @ - 1])
  /\ UNCHANGED <<srvVars, uiVars, dl, s3req, cred, up, ls, opVars>>

\* await ftpClient.access(...): logged in, connection refused (nothing opened)
\* or control connection up and the login rejected (throws)
FtpAccess(outcome) ==
  /\ sess.pc \in {"download", "upload", "delete"}
  /\ sess.stage = "connect"
  /\ PhaseType(sess) = "ftp"
  /\ sess' = IF outcome = "ok"
               THEN [sess EXCEPT !.stage = "op", !.open = @ + 1, !.opened = @ + 1]
             ELSE IF outcome = "denied"
               THEN PhaseThrows([sess EXCEPT !.open = @ + 1, !.opened = @ + 1])
             ELSE PhaseThrows(sess)
  /\ UNCHANGED <<srvVars, uiVars, dl, s3req, cred, up, ls, opVars>>

\* await ftpClient.downloadTo / uploadFrom / remove, then ftpClient.close();
\* a rejected await goes to the catch block past the close()
FtpOp(ok) ==
  /\ sess.pc \in {"download", "upload", "delete"}
  /\ sess.stage = "op"
  /\ PhaseType(sess) = "ftp"
  /\ sess' = IF ok THEN PhaseDone([sess EXCEPT !.open = @ - 1])
             ELSE PhaseThrows(sess)
  /\ UNCHANGED <<srvVars, uiVars, dl, s3req, cred, up, ls, opVars>>

\* await s3Client.send(command): one HTTP request, no session is kept
S3Send(ok) ==
  /\ sess.pc \in {"download", "upload", "delete"}
  /\ PhaseType(sess) = "s3"
  /\ sess' = IF ok THEN PhaseDone(sess) ELSE PhaseThrows(sess)
  /\ UNCHANGED <<srvVars, uiVars, dl, s3req, cred, up, ls, opVars>>

\* ------------------------------------------------------------ SFTP upload
MaxUploads == 2        \* requests to POST /api/fs/sftp/upload
UploadChunks == 2      \* chunks the read stream delivers before it ends
UpIds == 1..MaxUploads

\* one request: where it is, whether its file is in uploads_temp, the chunks
\* piped so far and the status of the response (0: none sent)
IdleUp == [i \in UpIds |-> [pc |-> "idle", temp |-> FALSE, chunks |-> 0, status |-> 0]]

\* the request arrives: multer has stored req.file in uploads_temp; without a
\* file 400, without stored credentials unlinkSync and 400, else connectSFTP
UploadArrives(i, hasFile, hasCreds) ==
  /\ up[i].pc = "idle"
  /\ up' = [up EXCEPT ![i] =
              IF ~hasFile THEN [@ EXCEPT !.pc = "settled", !.status = 400]
              ELSE IF ~hasCreds THEN [@ EXCEPT !.pc = "settled", !.temp = FALSE, !.status = 400]
              ELSE [@ EXCEPT !.pc = "connecting", !.temp = TRUE]]
  /\ UNCHANGED <<srvVars, uiVars, dl, s3req, cred, sess, ls, opVars>>

\* await connectSFTP resolves (streams created, handlers set, pipe started) or
\* rejects (catch: unlinkSync, 500)
UploadConnect(i, ok) ==
  /\ up[i].pc = "connecting"
  /\ up' = [up EXCEPT ![i] =
              IF ok THEN [@ EXCEPT !.pc = "piping"]
              ELSE [@ EXCEPT !.pc = "settled", !.temp = FALSE, !.status = 500]]
  /\ UNCHANGED <<srvVars, uiVars, dl, s3req, cred, sess, ls, opVars>>

\* readStream delivers a chunk to writeStream
UploadChunk(i) ==
  /\ up[i].pc = "piping"
  /\ up[i].chunks < UploadChunks
  /\ up' = [up EXCEPT ![i].chunks = @ + 1]
  /\ UNCHANGED <<srvVars, uiVars, dl, s3req, cred, sess, ls, opVars>>

\* writeStream 'close' after the last chunk: client.end(), unlinkSync, res.json
WriteClose(i) ==
  /\ up[i].pc = "piping"
  /\ up[i].chunks = UploadChunks
  /\ up' = [up EXCEPT ![i] = [@ EXCEPT !.pc = "settled", !.temp = FALSE, !.status = 200]]
  /\ UNCHANGED <<srvVars, uiVars, dl, s3req, cred, sess, ls, opVars>>

\* writeStream 'error': client.end(), unlinkSync, 500
WriteError(i) ==
  /\ up[i].pc = "piping"
  /\ up' = [up EXCEPT ![i] = [@ EXCEPT !.pc = "settled", !.temp = FALSE, !.status = 500]]
  /\ UNCHANGED <<srvVars, uiVars, dl, s3req, cred, sess, ls, opVars>>

\* readStream 'error': no listener is registered and pipe() forwards no error,
\* so the event is an uncaught exception; the process ends and every request
\* in flight settles with its connection closed and no handler run
ReadError(i) ==
  /\ up[i].pc = "piping"
  /\ up' = [j \in UpIds |->
              IF up[j].pc \in {"connecting", "piping"} THEN [up[j] EXCEPT !.pc = "crashed"]
              ELSE up[j]]
  /\ UNCHANGED <<srvVars, uiVars, dl, s3req, cred, sess, ls, opVars>>

\* ------------------------------------------------------------ listings
MaxEntries == 3        \* entries of the directory that is listed

\* the names a directory may hold
ListNames == {".hidden", "alpha", "Beta", "zeta.txt"}

\* the first characters of each name as code points, upper case folded to lower
Folded ==
  [n \in ListNames |->
     CASE n = ".hidden" -> <<46, 104>>
       [] n = "alpha" -> <<97, 108>>
       [] n = "Beta" -> <<98, 101>>
       [] n = "zeta.txt" -> <<122, 101>>]

\* name.startsWith('.')
startsWithDot(name) == Folded[name][1] = 46

\* a.localeCompare(b) < 0 in the collation of the server: punctuation before
\* letters, letters in alphabetical order whatever their case
Collation == <<".hidden", "alpha", "Beta", "zeta.txt">>
localeCompare(a, b) ==
  (CHOOSE k \in 1..Len(Collation) : Collation[k] = a)
    - (CHOOSE k \in 1..Len(Collation) : Collation[k] = b)

\* a directory as the backend enumerates it: entries with distinct names in
\* any order
Dirs ==
  UNION { { d \in [1..n -> [name : ListNames, type : {"folder", "file"}]] : \A i, j \in 1..n : d[i].name = d[j].name => i = j }
          : n \in 0..MaxEntries }

\* one listing request, before it is served and after
IdleLs == [pc |-> "idle", backend |-> None, dir |-> <<>>, listing |-> <<>>]

\* .filter(f => !f.name.startsWith('.'))
RECURSIVE FilterHidden(_)
FilterHidden(d) ==
  IF d = <<>> THEN <<>>
  ELSE IF startsWithDot(Head(d).name) THEN FilterHidden(Tail(d))
  ELSE <<Head(d)>> \o FilterHidden(Tail(d))

\* the comparator of the listing routes: folders first, then localeCompare
compare(a, b) ==
  IF a.type = "folder" /\ b.type # "folder" THEN -1
  ELSE IF a.type # "folder" /\ b.type = "folder" THEN 1
  ELSE localeCompare(a.name, b.name)

\* insert x into the sorted d, after the entries that compare equal (stable)
RECURSIVE Insert(_, _)
Insert(x, d) ==
  IF d = <<>> THEN <<x>>
  ELSE IF compare(x, Head(d)) < 0 THEN <<x>> \o d
  ELSE <<Head(d)>> \o Insert(x, Tail(d))

\* files.sort(compare)
RECURSIVE sort(_)
sort(d) == IF d = <<>> THEN <<>> ELSE Insert(d[Len(d)], sort(SubSeq(d, 1, Len(d) - 1)))

\* GET /api/fs/list: readdirSync mapped to items and sent as is
ListLocal(d) ==
  /\ ls.pc = "idle"
  /\ ls' = [pc |-> "done", backend |-> "Local", dir |-> d, listing |-> d]
  /\ UNCHANGED <<srvVars, uiVars, dl, s3req, cred, sess, up, opVars>>

\* POST /api/fs/sftp/list, ftp/list, smb/list, nfs/list: hidden entries
\* filtered out, then sorted
ListFiltered(backend, d) ==
  /\ ls.pc = "idle"
  /\ ls' = [pc |-> "done", backend |-> backend, dir |-> d, listing |-> sort(FilterHidden(d))]
  /\ UNCHANGED <<srvVars, uiVars, dl, s3req, cred, sess, up, opVars>>

\* POST /api/fs/s3/list and /api/rclone/list: every entry, sorted
ListSorted(backend, d) ==
  /\ ls.pc = "idle"
  /\ ls' = [pc |-> "done", backend |-> backend, dir |-> d, listing |-> sort(d)]
  /\ UNCHANGED <<srvVars, uiVars, dl, s3req, cred, sess, up, opVars>>

\* ------------------------------------------------------------ connection test
\* the names the tested directory may hold and what a file may contain
ProbeNames == {".nexus_write_test", "a.txt", "b.txt", "c.txt"}
ProbeContents == {"x", "y"}

IdleProbe ==
  [pc |-> "idle", kind |-> None, dir |-> [n \in ProbeNames |-> None],
   success |-> FALSE, canWrite |-> FALSE]

\* POST /api/connections/test for a Local connection: host names a path that
\* is missing, a file, or a directory with some content
ProbeTarget(kind, d) ==
  /\ probe.pc = "idle"
  /\ kind = "directory" \/ d = IdleProbe.dir
  /\ probe' = [IdleProbe EXCEPT !.pc = "called", !.kind = kind, !.dir = d]
  /\ UNCHANGED <<srvVars, uiVars, dl, s3req, cred, sess, up, ls, s3del, sftp, undo>>

\* testLocal up to fs.writeFileSync(testFile, 'test'): existsSync, statSync,
\* readdirSync, then the write, which succeeds or throws (read-only)
testLocal(writable) ==
  /\ probe.pc = "called"
  /\ probe' =
       IF probe.kind # "directory" THEN [probe EXCEPT !.pc = "done"]
       ELSE IF writable
         THEN [probe EXCEPT !.pc = "written", !.success = TRUE,
                            !.dir[".nexus_write_test"] = "test"]
       ELSE [probe EXCEPT !.pc = "done", !.success = TRUE]
  /\ UNCHANGED <<srvVars, uiVars, dl, s3req, cred, sess, up, ls, s3del, sftp, undo>>

\* fs.unlinkSync(testFile) removes the file (canWrite = true) or throws into
\* the empty catch
ProbeUnlink(ok) ==
  /\ probe.pc = "written"
  /\ probe' = IF ok THEN [probe EXCEPT !.pc = "done", !.canWrite = TRUE,
                                       !.dir[".nexus_write_test"] = None]
              ELSE [probe EXCEPT !.pc = "done"]
  /\ UNCHANGED <<srvVars, uiVars, dl, s3req, cred, sess, up, ls, s3del, sftp, undo>>

\* ------------------------------------------------------------ S3 delete
\* the object keys of the bucket, split at '/': the placeholder docs/ that the
\* mkdir route writes, two objects under docs/ and two beside it
S3Objects ==
  { <<"docs", "">>, <<"docs", "a.txt">>, <<"docs", "sub", "b.txt">>, <<"docs.txt">>,
    <<"other.txt">> }

\* the entries of the root listing the explorer can delete, with the s3Key of
\* the listing route (p.Prefix for a folder, obj.Key for a file)
S3Items ==
  { [name |-> "docs", type |-> "folder", s3Key |-> <<"docs", "">>],
    [name |-> "docs.txt", type |-> "file", s3Key |-> <<"docs.txt">>],
    [name |-> "other.txt", type |-> "file", s3Key |-> <<"other.txt">>] }

IdleS3Del ==
  [bucket |-> {}, pc |-> "idle", item |-> [name |-> None, type |-> None, s3Key |-> <<>>],
   keys |-> {}, status |-> 0]

\* an object is put into the bucket before the delete is asked for
S3Put(key) ==
  /\ s3del.pc = "idle"
  /\ key \notin s3del.bucket
  /\ s3del' = [s3del EXCEPT !.bucket = @ \cup {key}]
  /\ UNCHANGED <<srvVars, uiVars, dl, s3req, cred, sess, up, ls, probe, sftp, undo>>

\* handleDelete of a listed entry on an S3 connection: keys: [file.s3Key], and
\* POST /api/fs/s3/delete up to its await (400 without credentials)
S3DeleteRequest(item, credentials) ==
  /\ s3del.pc = "idle"
  /\ \E k \in s3del.bucket : k[1] = item.name
  /\ s3del' = [s3del EXCEPT !.item = item, !.keys = {item.s3Key},
                             !.pc = IF credentials THEN "sent" ELSE "done",
                             !.status = IF credentials THEN 0 ELSE 400]
  /\ UNCHANGED <<srvVars, uiVars, dl, s3req, cred, sess, up, ls, probe, sftp, undo>>

\* await client.send(DeleteObjectsCommand) settles: the listed keys are
\* deleted, or the command throws
S3DeleteObjects(ok) ==
  /\ s3del.pc = "sent"
  /\ s3del' = IF ok THEN [s3del EXCEPT !.bucket = @ \ s3del.keys, !.pc = "done", !.status = 200]
              ELSE [s3del EXCEPT !.pc = "done", !.status = 500]
  /\ UNCHANGED <<srvVars, uiVars, dl, s3req, cred, sess, up, ls, probe, sftp, undo>>

\* ------------------------------------------------------------ SFTP list and copy
\* one request to POST /api/fs/sftp/list: the stage of its connection, the
\* `responded` flag, the pending 15 s timeout, whether 'error' was emitted and
\* the number of responses the handler has sent; and one request to
\* POST /api/fs/sftp/copy: its stage, the stream errors emitted and the
\* responses sent; status is the status of the first response, the one the
\* client receives
IdleSftp ==
  [list |-> [stage |-> "idle", responded |-> FALSE, timeout |-> FALSE, errored |-> FALSE,
             sent |-> 0, status |-> 0],
   copy |-> [stage |-> "idle", readError |-> FALSE, writeError |-> FALSE, sent |-> 0,
             status |-> 0]]

\* res.status(code).json(...)
Send(r, code) == [r EXCEPT !.sent = @ + 1, !.status = IF @ = 0 THEN code ELSE @]

\* the list handler up to client.connect(...): 400 without credentials
ListArrives(credentials) ==
  /\ sftp.list.stage = "idle"
  /\ sftp' = [sftp EXCEPT !.list = IF credentials
                                   THEN [@ EXCEPT !.stage = "connecting", !.timeout = TRUE]
                                   ELSE Send([@ EXCEPT !.stage = "over"], 400)]
  /\ UNCHANGED <<srvVars, uiVars, dl, s3req, cred, sess, up, ls, probe, s3del, undo>>

\* the setTimeout of 15000 ms fires
ListTimeout ==
  /\ sftp.list.timeout
  /\ sftp' = [sftp EXCEPT !.list =
                IF @.responded THEN [@ EXCEPT !.timeout = FALSE]
                ELSE Send([@ EXCEPT !.timeout = FALSE, !.responded = TRUE], 408)]
  /\ UNCHANGED <<srvVars, uiVars, dl, s3req, cred, sess, up, ls, probe, s3del, undo>>

\* client 'ready': clearTimeout, return if responded, else client.sftp(...)
ListReady ==
  /\ sftp.list.stage = "connecting" /\ ~sftp.list.errored
  /\ sftp' = [sftp EXCEPT !.list =
                IF @.responded THEN [@ EXCEPT !.timeout = FALSE, !.stage = "over"]
                ELSE [@ EXCEPT !.timeout = FALSE, !.stage = "sftp"]]
  /\ UNCHANGED <<srvVars, uiVars, dl, s3req, cred, sess, up, ls, probe, s3del, undo>>

\* the callback of client.sftp: with err client.end() and 500, else
\* sftp.readdir(...); after 'error' the pending callback gets an error
ListSftpCb(err) ==
  /\ sftp.list.stage = "sftp"
  /\ sftp.list.errored => err
  /\ sftp' = [sftp EXCEPT !.list =
                IF err THEN Send([@ EXCEPT !.stage = "over"], 500)
                ELSE [@ EXCEPT !.stage = "readdir"]]
  /\ UNCHANGED <<srvVars, uiVars, dl, s3req, cred, sess, up, ls, probe, s3del, undo>>

\* the callback of sftp.readdir: client.end(), then 500 or the listing
ListReaddirCb(err) ==
  /\ sftp.list.stage = "readdir"
  /\ sftp.list.errored => err
  /\ sftp' = [sftp EXCEPT !.list = Send([@ EXCEPT !.stage = "over"], IF err THEN 500 ELSE 200)]
  /\ UNCHANGED <<srvVars, uiVars, dl, s3req, cred, sess, up, ls, probe, s3del, undo>>

\* client 'error' while the connection is up or being set up: clearTimeout,
\* return if responded, else responded = true and 500
ListError ==
  /\ sftp.list.stage \in {"connecting", "sftp", "readdir"} /\ ~sftp.list.errored
  /\ sftp' = [sftp EXCEPT !.list =
                IF @.responded
                THEN [@ EXCEPT !.timeout = FALSE, !.errored = TRUE,
                               !.stage = IF @ = "connecting" THEN "over" ELSE @]
                ELSE Send([@ EXCEPT !.timeout = FALSE, !.errored = TRUE, !.responded = TRUE,
                                     !.stage = IF @ = "connecting" THEN "over" ELSE @], 500)]
  /\ UNCHANGED <<srvVars, uiVars, dl, s3req, cred, sess, up, ls, probe, s3del, undo>>

\* the copy handler up to the three stream handlers: 400 without credentials
\* or paths, 500 when connectSFTP rejects, else the pipe is running
CopyArrives(outcome) ==
  /\ sftp.copy.stage = "idle"
  /\ sftp' = [sftp EXCEPT !.copy = IF outcome = "piping" THEN [@ EXCEPT !.stage = "piping"]
                                   ELSE Send([@ EXCEPT !.stage = "over"],
                                             IF outcome = "invalid" THEN 400 ELSE 500)]
  /\ UNCHANGED <<srvVars, uiVars, dl, s3req, cred, sess, up, ls, probe, s3del, undo>>

\* readStream 'error': client.end() and 500; the write stream stays open
CopyReadError ==
  /\ sftp.copy.stage = "piping" /\ ~sftp.copy.readError
  /\ sftp' = [sftp EXCEPT !.copy = Send([@ EXCEPT !.readError = TRUE], 500)]
  /\ UNCHANGED <<srvVars, uiVars, dl, s3req, cred, sess, up, ls, probe, s3del, undo>>

\* writeStream 'error': client.end() and 500; 'close' follows
CopyWriteError ==
  /\ sftp.copy.stage = "piping" /\ ~sftp.copy.writeError
  /\ sftp' = [sftp EXCEPT !.copy = Send([@ EXCEPT !.writeError = TRUE], 500)]
  /\ UNCHANGED <<srvVars, uiVars, dl, s3req, cred, sess, up, ls, probe, s3del, undo>>

\* writeStream 'close', after the last write or after an error: client.end()
\* and res.json(success)
CopyWriteClose ==
  /\ sftp.copy.stage = "piping"
  /\ sftp' = [sftp EXCEPT !.copy = Send([@ EXCEPT !.stage = "over"], 200)]
  /\ UNCHANGED <<srvVars, uiVars, dl, s3req, cred, sess, up, ls, probe, s3del, undo>>

\* ------------------------------------------------------------ delete and undo
\* the entries of the listing the explorer shows
UndoFiles == {"a.txt", "b.txt", "c.txt"}

\* files: the listing on screen; backend: what the connection holds;
\* deleteNotification: the file of the undo toast (its timeout is the timer of
\* that file); timers: the pending 5 s timeouts, each closed over its file;
\* requests: the delete requests in flight
IdleUndo ==
  [files |-> UndoFiles, backend |-> UndoFiles, deleteNotification |-> None,
   timers |-> {}, requests |-> {}]

\* handleDelete(e, file): the timeout of the previous notification is cleared
\* and the notification dropped, the file leaves the view, a new timeout is
\* set and becomes the notification (a file is deleted again only when its
\* earlier delete is over)
handleDelete(file) ==
  /\ file \in undo.files
  /\ file \notin undo.timers \cup undo.requests
  /\ undo' = [undo EXCEPT !.files = @ \ {file},
                           !.timers = (@ \ {undo.deleteNotification}) \cup {file},
                           !.deleteNotification = file]
  /\ UNCHANGED <<srvVars, uiVars, dl, s3req, cred, sess, up, ls, probe, s3del, sftp>>

\* handleUndoDelete: the Desfazer button of the notification
handleUndoDelete ==
  /\ undo.deleteNotification # None
  /\ undo' = [undo EXCEPT !.timers = @ \ {undo.deleteNotification},
                           !.files = @ \cup {undo.deleteNotification},
                           !.deleteNotification = None]
  /\ UNCHANGED <<srvVars, uiVars, dl, s3req, cred, sess, up, ls, probe, s3del, sftp>>

\* the 5 s timeout of a delete fires: the delete request of its file is sent
DeleteTimerFires(file) ==
  /\ file \in undo.timers
  /\ undo' = [undo EXCEPT !.timers = @ \ {file}, !.requests = @ \cup {file}]
  /\ UNCHANGED <<srvVars, uiVars, dl, s3req, cred, sess, up, ls, probe, s3del, sftp>>

\* the delete request settles: deleted on the backend, or the catch block
\* puts the file back into the view; then setDeleteNotification(null)
DeleteSettles(file, ok) ==
  /\ file \in undo.requests
  /\ undo' = [undo EXCEPT !.requests = @ \ {file},
                           !.backend = IF ok THEN @ \ {file} ELSE @,
                           !.files = IF ok THEN @ ELSE @ \cup {file},
                           !.deleteNotification = None]
  /\ UNCHANGED <<srvVars, uiVars, dl, s3req, cred, sess, up, ls, probe, s3del, sftp>>

\* ------------------------------------------------------------ other endpoints

\* no download, no request to the other endpoints

InitExt ==
  /\ probe = IdleProbe
  /\ s3del = IdleS3Del
  /\ sftp = IdleSftp
  /\ undo = IdleUndo
  /\ dl = IdleDl
  /\ s3req = IdleS3
  /\ cred = IdleCred
  /\ sess = IdleSess
  /\ up = IdleUp
  /\ ls = IdleLs

\* the file explorer is open on one of the connections, its listing loaded
InitUI ==
  /\ InitSrv
  /\ activeConnection \in Connections
  /\ files = getFilesForConnection(InitRemote, activeConnection)
  /\ ui = ClosedUi
  /\ timer = NoTimer
  /\ transfers = [t \in RecIds |-> NoTransfer]
  /\ handlers = [t \in RecIds |-> IdleHandler]
  /\ InitExt

NextUI ==
  \/ \E file \in files, type \in {"move", "copy"} : InitiateAction(file, type)
  \/ \E conn \in Connections : SelectDest(conn)
  \/ \E ok \in BOOLEAN : DestLoaded(ok)
  \/ CloseModal
  \/ ClickConfirm
  \/ ClickReplace
  \/ ClickRename
  \/ \E v \in RenameInputs : TypeRename(v)
  \/ ClickContinuar
  \/ ClickCancelar
  \/ TimerFires
  \/ \E t \in RecIds, rnd \in RandomValues : IntervalTick(t, rnd)
  \/ \E t \in RecIds, rnd \in RandomValues : ProgressTick(t, rnd)
  \/ \E t \in RecIds : Deliver(t)
  \/ \E i \in ReqIds, ok \in BOOLEAN : Step1(i, ok)
  \/ \E i \in ReqIds, ok \in BOOLEAN : Step2(i, ok)
  \/ \E i \in ReqIds, ok \in BOOLEAN : Step3(i, ok)
  \/ \E t \in RecIds, ok \in BOOLEAN : SameServer(t, ok)
  \/ \E t \in RecIds : FetchSettled(t)
  \/ \E t \in RecIds, ok \in BOOLEAN : RefreshSettled(t, ok)
  \/ \E t \in RecIds : AutoRemove(t)
  \/ \E t \in RecIds : RemoveTransfer(t)
  \/ Tick

SpecUI == InitUI /\ [][NextUI]_vars

\* the server alone, with no file explorer open: requests arrive from any client
Init ==
  /\ InitSrv
  /\ activeConnection = NoConn
  /\ files = {}
  /\ ui = ClosedUi
  /\ timer = NoTimer
  /\ transfers = [t \in RecIds |-> NoTransfer]
  /\ handlers = [t \in RecIds |-> IdleHandler]
  /\ InitExt

\* requests take the request slots in order
Arrive(i, body) ==
  /\ \A j \in ReqIds : j < i => reqs[j].pc # "idle"
  /\ Receive(i, body)

Next ==
  \/ \E i \in ReqIds, body \in Bodies : Arrive(i, body)
  \/ \E i \in ReqIds, ok \in BOOLEAN : Step1(i, ok)
  \/ \E i \in ReqIds, ok \in BOOLEAN : Step2(i, ok)
  \/ \E i \in ReqIds, ok \in BOOLEAN : Step3(i, ok)
  \/ Tick

Spec == Init /\ [][Next]_vars

\* the download panel alone: downloads of the entries of the open listing
NextDl ==
  \/ \E d \in DlIds : RetryDownload(d)
  \/ \E d \in DlIds, file \in DlItems : StartDownload(d, file)
  \/ CancelDownload
  \/ \E d \in DlIds : AbortRejects(d)
  \/ \E d \in DlIds, ok \in BOOLEAN, total \in {0, FileChunks} : FetchResponds(d, ok, total)
  \/ \E d \in DlIds : ReadChunk(d)
  \/ \E d \in DlIds : ReadFails(d)
  \/ \E d \in DlIds : ReadDone(d)
  \/ \E d \in DlIds : ResetTimer(d)

SpecDl == Init /\ [][NextDl]_vars

\* the S3 rename endpoint alone
NextS3 ==
  \/ \E i \in S3Ids, body \in RenameBodies : S3Rename(i, body)
  \/ \E i \in S3Ids, ok \in BOOLEAN : S3Copy(i, ok)
  \/ \E i \in S3Ids, outcome \in {"deleted", "throws", "errors"} : S3Delete(i, outcome)

SpecS3 == Init /\ [][NextS3]_vars

\* registration, the credential routes and an SFTP route
NextCred ==
  \/ \E e \in Emails : Register(e)
  \/ \E e \in Emails, c \in CredConnIds, port \in {0, 22} : SaveCredentials(e, c, port)
  \/ \E e \in Emails, c \in CredConnIds : ReadCredentials(e, c)
  \/ \E e \in Emails, c \in CredConnIds : DeleteCredentials(e, c)
  \/ \E e \in Emails, body \in ListBodies : SftpList(e, body)
  \/ Tick

SpecCred == Init /\ [][NextCred]_vars

\* one cross-server transfer and its transport sessions
NextSess ==
  \/ \E src \in SessTypes, dst \in SessTypes, isMove \in BOOLEAN : SessStart(src, dst, isMove)
  \/ \E outcome \in {"ready", "nochannel", "timeout", "error"} : SftpConnect(outcome)
  \/ \E ok \in BOOLEAN : SftpOp(ok)
  \/ \E outcome \in {"ok", "refused", "denied"} : FtpAccess(outcome)
  \/ \E ok \in BOOLEAN : FtpOp(ok)
  \/ \E ok \in BOOLEAN : S3Send(ok)

SpecSess == Init /\ [][NextSess]_vars

\* uploads through POST /api/fs/sftp/upload
NextUpload ==
  \/ \E i \in UpIds, hasFile \in BOOLEAN, hasCreds \in BOOLEAN : UploadArrives(i, hasFile, hasCreds)
  \/ \E i \in UpIds, ok \in BOOLEAN : UploadConnect(i, ok)
  \/ \E i \in UpIds : UploadChunk(i)
  \/ \E i \in UpIds : WriteClose(i)
  \/ \E i \in UpIds : WriteError(i)
  \/ \E i \in UpIds : ReadError(i)

SpecUpload == Init /\ [][NextUpload]_vars

\* directory listings of every backend
NextList ==
  \/ \E d \in Dirs : ListLocal(d)
  \/ \E backend \in {"SFTP", "FTP", "SMB", "NFS"}, d \in Dirs : ListFiltered(backend, d)
  \/ \E backend \in {"S3", "cloud"}, d \in Dirs : ListSorted(backend, d)

SpecList == Init /\ [][NextList]_vars

\* the connection test of a Local connection
NextProbe ==
  \/ \E kind \in {"missing", "file", "directory"},
        d \in [ProbeNames -> ProbeContents \cup {None}] : ProbeTarget(kind, d)
  \/ \E writable \in BOOLEAN : testLocal(writable)
  \/ \E ok \in BOOLEAN : ProbeUnlink(ok)

SpecProbe == Init /\ [][NextProbe]_vars

\* a delete of a listed entry of an S3 connection
NextS3Del ==
  \/ \E key \in S3Objects : S3Put(key)
  \/ \E item \in S3Items, credentials \in BOOLEAN : S3DeleteRequest(item, credentials)
  \/ \E ok \in BOOLEAN : S3DeleteObjects(ok)

SpecS3Del == Init /\ [][NextS3Del]_vars

\* one request to the SFTP list route and one to the SFTP copy route
NextSftp ==
  \/ \E credentials \in BOOLEAN : ListArrives(credentials)
  \/ ListTimeout
  \/ ListReady
  \/ \E err \in BOOLEAN : ListSftpCb(err)
  \/ \E err \in BOOLEAN : ListReaddirCb(err)
  \/ ListError
  \/ \E outcome \in {"invalid", "rejected", "piping"} : CopyArrives(outcome)
  \/ CopyReadError
  \/ CopyWriteError
  \/ CopyWriteClose

SpecSftp == Init /\ [][NextSftp]_vars

\* deletes and undos in the explorer
NextUndo ==
  \/ \E file \in UndoFiles : handleDelete(file)
  \/ handleUndoDelete
  \/ \E file \in UndoFiles : DeleteTimerFires(file)
  \/ \E file \in UndoFiles, ok \in BOOLEAN : DeleteSettles(file, ok)

\* a pending timeout fires and a request in flight settles
SpecUndo ==
  /\ Init /\ [][NextUndo]_vars
  /\ \A file \in UndoFiles : WF_vars(DeleteTimerFires(file))
  /\ \A file \in UndoFiles : WF_vars(\E ok \in BOOLEAN : DeleteSettles(file, ok))

TypeOK ==
  /\ now \in 1..(MaxTime + 1)
  /\ \A i \in ReqIds : reqs[i].pc \in {"idle", "step1", "step2", "step3", "done"}

\* ------------------------------------------------------------------ claims
Range(seq) == { seq[k] : k \in 1..Len(seq) }

InFlight(i) == reqs[i].pc \in {"step1", "step2", "step3"}
Settled(i) == reqs[i].pc = "done"
SrcOf(r) == <<r.srcConnection.id, r.srcPath>>
DstOf(r) == <<r.dstConnection.id, r.dstPath>>

\* C1: the delete of the source is issued only after the upload of the same
\* request reported success; a request whose download or upload failed issues
\* no delete; and a remote file changes only as the destination of an upload or
\* as the source of a move whose upload succeeded
C1_DeleteOnlyAfterUpload ==
  /\ [](\A i \in ReqIds :
          LET l == reqs[i].log IN
          /\ \A k \in 1..Len(l) : l[k] = "del:start" => \E j \in 1..(k-1) : l[j] = "put:ok"
          /\ ("get:fail" \in Range(l) \/ "put:fail" \in Range(l)) => "del:start" \notin Range(l))
  /\ [][\A c \in ConnIds, p \in Paths :
          remote'[c][p] # remote[c][p] =>
            \E i \in ReqIds :
              \/ reqs[i].pc = "step2" /\ DstOf(reqs[i]) = <<c, p>>
              \/ /\ reqs[i].pc = "step3" /\ SrcOf(reqs[i]) = <<c, p>>
                 /\ reqs[i].isMove /\ "put:ok" \in Range(reqs[i].log)
                 /\ remote'[c][p] = None]_vars

\* a move whose upload failed has settled with its source as it was
C1_Witness ==
  \E i \in ReqIds :
    /\ Settled(i) /\ reqs[i].isMove /\ reqs[i].status = 500
    /\ "put:fail" \in Range(reqs[i].log)
    /\ remote[reqs[i].srcConnection.id][reqs[i].srcPath]
         = InitRemote[reqs[i].srcConnection.id][reqs[i].srcPath]

\* C2: once a request has settled, no staging file this request wrote is on
\* the local disk
C2_NoLeakedStagingFile ==
  \A i \in ReqIds : Settled(i) => \A tf \in TempFiles : disk[tf].writer # i

\* a request has settled with an error after its download had written the
\* staging file
C2_Witness ==
  \E i \in ReqIds :
    /\ Settled(i) /\ reqs[i].status = 500
    /\ "get:ok" \in Range(reqs[i].log) /\ "put:fail" \in Range(reqs[i].log)

\* C3: two requests in flight at the same time have different staging paths
C3_DistinctStagingPaths ==
  \A i, j \in ReqIds :
    (i # j /\ InFlight(i) /\ InFlight(j)) => reqs[i].tempFile # reqs[j].tempFile

\* C4: within one request the upload starts only after the download has
\* reported success and the delete starts only after the upload has
\* reported success
C4_PhasesInOrder ==
  \A i \in ReqIds :
    LET l == reqs[i].log IN
    \A k \in 1..Len(l) :
      /\ l[k] = "put:start" => \E j \in 1..(k-1) : l[j] = "get:ok"
      /\ l[k] = "del:start" => \E j \in 1..(k-1) : l[j] = "put:ok"

\* a move has run its three phases
C4_Witness ==
  \E i \in ReqIds : Settled(i) /\ reqs[i].log = <<"get:start", "get:ok", "put:start", "put:ok", "del:start", "del:ok">>

\* no other request of the run reads or writes the source or the destination
\* of request i
Undisturbed(i) ==
  \A j \in ReqIds \ {i} :
    reqs[j].pc # "idle" =>
      /\ DstOf(reqs[j]) \notin {SrcOf(reqs[i]), DstOf(reqs[i])}
      /\ SrcOf(reqs[j]) \notin {SrcOf(reqs[i]), DstOf(reqs[i])}

\* C5: when a move reports success, the destination holds the content of the
\* source file and the source file is gone (for a move whose source and
\* destination no other request touches)
C5_SuccessfulMove ==
  [][\A i \in ReqIds :
       (/\ InFlight(i) /\ reqs'[i].pc = "done" /\ reqs'[i].status = 200
        /\ reqs[i].isMove /\ Undisturbed(i)) =>
         /\ remote'[reqs[i].dstConnection.id][reqs[i].dstPath]
              = InitRemote[reqs[i].srcConnection.id][reqs[i].srcPath]
         /\ remote'[reqs[i].srcConnection.id][reqs[i].srcPath] = None]_vars

\* the render whose handleConfirmAction runs in the step: the one of the pending
\* timer, or the current one when the confirm button is clicked
Confirming == IF timer.set THEN timer.closure ELSE ui

\* the step creates the record of transfer t and sends its request
Starts(t) == handlers[t].pc = "none" /\ handlers'[t].pc # "none"

\* C6: when a copy/move is sent to the server and an entry already occupies
\* the final name at the destination, the user has chosen to replace it; a
\* rename goes to a name that is not occupied
C6_ConflictResolvedBeforeUpload ==
  [][\A t \in RecIds :
       (/\ Starts(t)
        /\ remote[handlers'[t].body.dstConnection.id][handlers'[t].body.dstPath] # None) =>
         Confirming.conflictAction = "replace"]_vars

\* C7: a request rejected because its source or destination kind has no
\* branch has made no adapter call
C7_UnsupportedFailsFast ==
  \A i \in ReqIds :
    reqs[i].error \in {SrcUnsupported, DstUnsupported} => reqs[i].log = <<>>

\* C8: a request for a folder is answered 400 at once: it has no staging
\* path, made no adapter call and wrote no staging file
C8_DirectoryRejected ==
  \A i \in ReqIds :
    (reqs[i].pc # "idle" /\ reqs[i].isDir) =>
      /\ Settled(i) /\ reqs[i].status = 400 /\ reqs[i].error = DirUnsupported
      /\ reqs[i].tempFile = None /\ reqs[i].log = <<>>
      /\ \A tf \in TempFiles : disk[tf].writer # i

\* a folder request has been answered with 400
C8_Witness ==
  \E i \in ReqIds : reqs[i].isDir /\ Settled(i) /\ reqs[i].status = 400

\* a phase of the request threw
PhaseFailed(r) == Range(r.log) \cap {"get:fail", "put:fail", "del:fail"} # {}

C10_ProgressMonotone ==
  [][\A t \in RecIds :
       (transfers[t].present /\ transfers'[t].present) =>
         transfers'[t].progress >= transfers[t].progress]_vars

\* the user cancelled transfer t: its record left the list while its request is
\* still awaited (only the cancel button removes a record that has not failed)
Cancelled(t) == handlers[t].pc = "fetch" /\ ~transfers[t].present

\* C11: once the user has cancelled a transfer, no remote file changes any
\* more: the request writes no destination and deletes no source
C11_CancelAbortsBackend ==
  [][\A t \in RecIds : Cancelled(t) => remote' = remote]_vars

\* transfer t is a copy within one plain FTP connection
FtpCopy(t) ==
  LET b == handlers[t].body IN
  /\ handlers[t].pc # "none"
  /\ b.srcConnection.type = FTP /\ b.dstConnection.id = b.srcConnection.id /\ ~b.isMove

\* C18: a copy within a plain FTP connection ends at once with the
\* unsupported-operation error: no request was sent for it, the FTP server
\* holds what it held, and its record (while shown) is failed with that error
C18_FtpCopyFailsFast ==
  \A t \in RecIds :
    FtpCopy(t) =>
      /\ handlers[t].pc = "done" /\ handlers[t].response = NoResponse
      /\ reqs[t].pc = "idle"
      /\ remote["F"] = InitRemote["F"]
      /\ transfers[t].present =>
           transfers[t].failed /\ transfers[t].status = FtpCopyUnsupported

\* a copy within the FTP connection was confirmed and its record shows the error
C18_Witness ==
  \E t \in RecIds :
    FtpCopy(t) /\ transfers[t].present /\ transfers[t].status = FtpCopyUnsupported

C13_S3RenameCopyThenDelete ==
  /\ [](\A i \in S3Ids :
          LET l == s3req.calls[i].log IN
          \A k \in 1..Len(l) : l[k] \in {"del:ok", "del:fail"} => (k > 1 /\ l[k-1] = "copy:ok"))
  /\ [][/\ \A k \in Keys :
            (s3req.bucket[k] # None /\ s3req'.bucket[k] = None) =>
              \E i \in S3Ids : /\ s3req.calls[i].pc = "delete" /\ s3req.calls[i].oldKey = k
                                /\ "copy:ok" \in Range(s3req.calls[i].log)
        /\ \A i \in S3Ids :
            LET r == s3req.calls[i]
                l == s3req'.calls[i].log
            IN
            /\ (Len(l) > Len(r.log) /\ l[Len(l)] \in {"copy:fail", "del:fail"}) =>
                 s3req'.bucket = s3req.bucket
            /\ (Len(l) > Len(r.log) /\ l[Len(l)] = "copy:ok") =>
                 /\ s3req'.bucket[r.oldKey] = s3req.bucket[r.oldKey]
                 /\ s3req'.bucket[r.newKey] = s3req.bucket[r.oldKey]]_vars

\* Scenario D: the copy of old.txt to new.txt succeeded, the delete failed, and
\* both objects exist
C13_Witness ==
  \E i \in S3Ids :
    /\ s3req.calls[i].log = <<"copy:ok", "del:fail">>
    /\ s3req.calls[i].oldKey = "old.txt" /\ s3req.calls[i].newKey = "new.txt"
    /\ s3req.bucket["old.txt"] = "v1" /\ s3req.bucket["new.txt"] = "v1"

\* C14: when a request carries a username, a password or a port and stored
\* credentials exist for its connection, the session is opened with the values
\* of the request
C14_ExplicitCredentialsWin ==
  LET x == cred.session IN
  (x # NoSession /\ x.stored) =>
    /\ x.body.username # None => x.username = x.body.username
    /\ x.body.password # None => x.password = x.body.password
    /\ x.body.port # 0 => x.port = x.body.port

\* C15: what a user reaches under a connection id through the credential
\* routes (to read, use, overwrite or delete) is what that user saved, and a
\* user has only ever been shown their own secret, also when another user has
\* saved credentials under the same connection id
C15_CredentialsScopedToUser ==
  \A e \in Emails :
    /\ cred.seen[e] \subseteq {Secret(e)}
    /\ cred.users[e] # 0 =>
         \A c \in CredConnIds :
           LET stored == getConnectionCredentials(cred.credentials, c, cred.users[e]) IN
           stored # NoStored => stored.password = Secret(e)

C15_Witness ==
  /\ \A e \in Emails :
       /\ cred.users[e] # 0
       /\ getConnectionCredentials(cred.credentials, "c1", cred.users[e]) # NoStored
  /\ cred.seen["ann"] # {}
  /\ cred.seen["bob"] # {}

\* C16: when the response of a transfer is sent, every transport session the
\* request opened has been closed, whether the response is a success or an
\* error
C16_SessionsClosedAtResponse == sess.pc = "done" => sess.open = 0

\* C17: once an upload request has settled, with a response or with its
\* connection closed, its file is no longer in the temp directory, whatever
\* the outcome (success, missing credentials, connection error, read error,
\* write error)
C17_TempFileRemoved ==
  \A i \in UpIds : up[i].pc \in {"settled", "crashed"} => ~up[i].temp

\* a before b in lexicographic order of the case-folded names
RECURSIVE LexLess(_, _)
LexLess(a, b) ==
  IF b = <<>> THEN FALSE
  ELSE IF a = <<>> THEN TRUE
  ELSE IF Head(a) # Head(b) THEN Head(a) < Head(b)
  ELSE LexLess(Tail(a), Tail(b))

\* C19: in the listing any backend returns, no file comes before a folder and
\* two entries of the same kind stand in lexicographic order of their names
C19_FoldersFirstThenByName ==
  ls.pc = "done" =>
    \A i, j \in 1..Len(ls.listing) :
      i < j =>
        /\ ~(ls.listing[i].type = "file" /\ ls.listing[j].type = "folder")
        /\ ls.listing[i].type = ls.listing[j].type =>
             LexLess(Folded[ls.listing[i].name], Folded[ls.listing[j].name])

\* C20: the listing any backend returns holds no entry whose name starts with
\* a dot
C20_NoHiddenEntries ==
  ls.pc = "done" => \A i \in 1..Len(ls.listing) : ~startsWithDot(ls.listing[i].name)

\* C23: while a transfer record is failed, no step sends or serves a backend
\* request for it: the requests of the server, the backends, the position of
\* its handler and the response it holds stay as they are (the Repetir button
\* only removes the record)
C23_NoRequestAfterFailure ==
  [][\A t \in RecIds :
       (transfers[t].present /\ transfers[t].failed) =>
         /\ reqs' = reqs
         /\ remote' = remote
         /\ handlers'[t].pc = handlers[t].pc
         /\ handlers'[t].response = handlers[t].response]_vars

C23_Witness ==
  \E t \in RecIds :
    /\ transfers[t].present /\ transfers[t].failed
    /\ Responded(t) /\ ~ResponseOk(Response(t))
    /\ handlers[t].ticks > 0

\* C24: the step of the Repetir button on a failed record leaves a record with
\* the same file name and action that is not failed, and a handler sending its
\* request again
C24_RetryStartsAgain ==
  [][\A t \in RecIds :
       (transfers[t].failed /\ RemoveTransfer(t)) =>
         \E u \in RecIds :
           /\ transfers'[u].present /\ ~transfers'[u].failed
           /\ transfers'[u].fileName = transfers[t].fileName
           /\ transfers'[u].actionType = transfers[t].actionType
           /\ handlers'[u].pc = "fetch"]_vars

\* C28: once handleConfirmAction has settled its transfer (completed or
\* failed), neither of the two progress timers it started is still running
C28_TimersClearedAtSettle ==
  \A t \in RecIds :
    handlers[t].pc = "done" => ~handlers[t].interval /\ ~handlers[t].progressInterval

\* C29: a record is failed only if the backend request failed: a record whose
\* request was answered with success is not failed
C29_FailedOnlyIfRequestFailed ==
  \A t \in RecIds :
    (transfers[t].present /\ Responded(t) /\ ResponseOk(Response(t))) => ~transfers[t].failed

\* C30: the handleConfirmAction scheduled by the Substituir button starts the
\* transfer (a record is added and its request is on the way) and does not
\* show the conflict modal again
C30_ReplaceStartsTransfer ==
  [][(timer.set /\ ~timer'.set /\ ui.conflictAction = "replace") =>
       /\ ~ui'.showConflictModal
       /\ \E t \in RecIds :
            /\ ~transfers[t].present /\ transfers'[t].present
            /\ handlers[t].pc = "none" /\ handlers'[t].pc \in {"fetch", "done"}]_vars

\* C25: the step that ends a rename whose new key equals its old key leaves
\* the object under that key in the bucket
C25_RenameToSameKeyKeepsObject ==
  [][\A i \in S3Ids :
       LET r == s3req.calls[i] IN
       (/\ r.pc \in {"copy", "delete"} /\ s3req'.calls[i].pc = "done"
        /\ r.oldKey = r.newKey /\ s3req.bucket[r.oldKey] # None) =>
         s3req'.bucket[r.newKey] # None]_vars

\* C21: no step of a connection test changes the tested directory: no entry
\* is created, overwritten or deleted
C21_TestMutatesNothing ==
  [][probe.pc \in {"called", "written"} => probe'.dir = probe.dir]_vars

\* C22: when the delete of a folder of an S3 connection is answered with
\* success, the bucket holds no object whose key starts with the folder's
\* prefix
C22_S3FolderDeleteIsRecursive ==
  (s3del.pc = "done" /\ s3del.status = 200 /\ s3del.item.type = "folder") =>
    \A k \in s3del.bucket : k[1] # s3del.item.name

\* C26: the handler of an SFTP list or copy request never sends a second
\* response, and has sent one when no event of the request is left
C26_ExactlyOneResponse ==
  /\ sftp.list.sent <= 1 /\ sftp.copy.sent <= 1
  /\ (sftp.list.stage = "over" /\ ~sftp.list.timeout) => sftp.list.sent = 1
  /\ sftp.copy.stage = "over" => sftp.copy.sent = 1

\* C27: a file that a delete took out of the view is eventually deleted on
\* the backend or back in the view
C27_RemovedFileIsDeletedOrRestored ==
  \A file \in UndoFiles :
    (file \notin undo.files /\ file \in undo.backend)
      ~> (file \notin undo.backend \/ file \in undo.files)
====
